---------------------------- MODULE Spec2Model ----------------------------
(***************************************************************************)
(* A model of the twitter bot of dns-gh/twbot (src/twbot.go): the text     *)
(* normalizer, the duplicate filter, the retweet flow, the relationship    *)
(* store (friends / followers), the follow-followers flow and the          *)
(* unfollow-all flow.                                                      *)
(*                                                                         *)
(* Texts are sequences of one-character strings.  User identifiers are     *)
(* integers; the keys of the friends / followers maps are their decimal    *)
(* representations (strconv.FormatInt), modelled as sequences of digits.   *)
(* Time is counted in clock ticks of half a day.                           *)
(***************************************************************************)
EXTENDS Integers, Sequences, FiniteSets, TLC

VARIABLES
    phase,          \* "boot0" | "boot1" | "running" | "dead": life of the process
    epoch,          \* number of the process incarnation (restarts)
    now,            \* time.Now(), in ticks
    debug,          \* TwitterBot.debug
    followersFile,  \* content of the file at followersPath
    friendsFile,    \* content of the file at friendsPath
    tweetsFile,     \* content of the file at tweetsPath (the ledger)
    followers,      \* TwitterBot.followers.Ids
    friends,        \* TwitterBot.friends.Ids
    retweetPolicy,  \* TwitterBot.retweetPolicy
    rt,             \* the retweet flows: position and locals of autoRetweet/retweet
    fl,             \* the follow-followers flow: position and locals of followAll
    uf,             \* the unfollow-all flow: position and locals of unfollowAll
    runs,           \* history: number of RetweetOnce invocations started
    retweeted,      \* history: candidates whose retweet call succeeded, with the run
    removed,        \* history: friends unfollowFriend flagged, not followed again since
    lastOp,         \* history: the operation the last step performed
    aux             \* TwitterBot.mutex, a SetRetweetPolicy call under way, pacing history

vars == <<phase, epoch, now, debug, followersFile, friendsFile, tweetsFile,
          followers, friends, retweetPolicy, rt, fl, uf, runs, retweeted, removed,
          lastOp, aux>>

storeVars == <<followersFile, friendsFile, followers, friends>>

\* the part of the state that only the steps of SpecLocks, SpecPolicy and
\* SpecPacing change
auxVars == <<aux>>

\* no call of SetRetweetPolicy is under way
idleSetter == [pc |-> "idle", maxTry |-> 0, like |-> FALSE, old |-> <<>>]

\* mutex: "free" or the flow that holds TwitterBot.mutex; setter: position
\* and arguments of a SetRetweetPolicy call, and the policy it found; paced: per flow, controlledSleep
\* has slept (or unfollowAll has waited its 3 hours) since the flow's last
\* follow/unfollow call (history)
auxInit ==
    aux = [mutex |-> "free",
           setter |-> idleSetter,
           paced |-> [flow \in {"followAll", "unfollowAll"} |-> TRUE]]

-----------------------------------------------------------------------------
(* Bounds of the model *)

MaxTime == 2        \* the clock stops after this many ticks
MaxRestarts == 1    \* process restarts explored
MaxRuns == 2        \* RetweetOnce invocations explored
MaxTryBound == 2    \* largest maxTry SetRetweetPolicy is called with

(* Program constants *)

oneDayInTicks == 2  \* oneDayInNano, in ticks of half a day
defaultMaxTry == 5  \* retweetPolicy.maxTry set by MakeTwitterBotWithCredentials

retweetTextTag == <<"R", "T", " ", "@">>
retweetTextIndex == <<":", " ">>
tweetTCOHTTPTag == <<"h", "t", "t", "p", ":", "/", "/", "t", ".", "c", "o">>
tweetTCOHTTPSTag == <<"h", "t", "t", "p", "s", ":", "/", "/", "t", ".", "c", "o">>
tweetTCOTextIndex == <<" ">>

-----------------------------------------------------------------------------
(* strings: Index, Contains, SplitN(_, _, 2) *)

HasPrefixAt(text, pat, i) ==
    /\ i + Len(pat) - 1 <= Len(text)
    /\ SubSeq(text, i, i + Len(pat) - 1) = pat

\* strings.Index, 1-based; 0 when pat does not occur
Index(text, pat) ==
    LET hits == {i \in 1..(Len(text) + 1) : HasPrefixAt(text, pat, i)}
    IN  IF hits = {} THEN 0 ELSE CHOOSE i \in hits : \A j \in hits : i <= j

Contains(text, pat) == Index(text, pat) # 0

\* strings.SplitN(text, sep, 2) for a non-empty sep
SplitN2(text, sep) ==
    LET i == Index(text, sep)
    IN  IF i = 0 THEN <<text>>
        ELSE <<SubSeq(text, 1, i - 1), SubSeq(text, i + Len(sep), Len(text))>>

\* strconv.FormatInt(id, 10) for id >= 0: the sequence of decimal digits
RECURSIVE FormatInt(_)
FormatInt(id) ==
    IF id < 10 THEN <<id>> ELSE FormatInt(id \div 10) \o <<id % 10>>

\* strconv.ParseInt(strID, 10, 64) of a sequence of decimal digits
RECURSIVE ParseInt(_)
ParseInt(strID) ==
    IF Len(strID) = 1 THEN strID[1]
    ELSE 10 * ParseInt(SubSeq(strID, 1, Len(strID) - 1)) + strID[Len(strID)]

-----------------------------------------------------------------------------
(* TextNormalizer: stripText, getOriginalText *)

stripText(text, tostripped, endSep) ==
    IF Contains(text, tostripped)
    THEN LET subtab == SplitN2(text, tostripped)
             temp == subtab[1]
             subtab2 == SplitN2(subtab[2], endSep)
         IN  [text |-> IF Len(subtab2) = 2 THEN temp \o subtab2[2] ELSE temp,
              stripped |-> TRUE]
    ELSE [text |-> text, stripped |-> FALSE]

\* the for loop of getOriginalText: strip until neither tag is found
RECURSIVE stripLoop(_)
stripLoop(stripped) ==
    LET s1 == stripText(stripped, tweetTCOHTTPTag, tweetTCOTextIndex)
        s2 == stripText(s1.text, tweetTCOHTTPSTag, tweetTCOTextIndex)
    IN  IF ~s1.stripped /\ ~s2.stripped THEN s2.text ELSE stripLoop(s2.text)

\* returns [text, err]: err is TRUE for the parsing error (and text is empty)
getOriginalText(text) ==
    IF Contains(text, retweetTextTag)
    THEN LET tab == SplitN2(text, retweetTextIndex)
         IN  IF Len(tab) # 2 THEN [text |-> <<>>, err |-> TRUE]
             ELSE [text |-> stripLoop(tab[2]), err |-> FALSE]
    ELSE [text |-> stripLoop(text), err |-> FALSE]

-----------------------------------------------------------------------------
(* DuplicateFilter: removeBanned, removeDuplicates, takeDifference *)

IsBanned(tweet, bannedQueries) ==
    \E i \in 1..Len(bannedQueries) :
        \/ Contains(tweet.Text, bannedQueries[i])
        \/ Contains(tweet.User.Name, bannedQueries[i])

removeBanned(current, bannedQueries) ==
    SelectSeq(current, LAMBDA tweet : ~IsBanned(tweet, bannedQueries))

\* the loop of removeDuplicates from index i on: temp is the set of the
\* original texts met so far (the empty text when getOriginalText fails)
RECURSIVE removeDuplicatesFrom(_, _, _, _)
removeDuplicatesFrom(current, i, temp, stripped) ==
    IF i > Len(current) THEN stripped
    ELSE LET original == getOriginalText(current[i].Text).text
         IN  IF original \notin temp
             THEN removeDuplicatesFrom(current, i + 1, temp \cup {original},
                                       Append(stripped, current[i]))
             ELSE removeDuplicatesFrom(current, i + 1, temp, stripped)

\* removeDuplicates with a slip: the loop starts at the second tweet
removeDuplicates_fromSecond(current) == removeDuplicatesFrom(current, 2, {}, <<>>)

removeDuplicates(current) == removeDuplicatesFrom(current, 1, {}, <<>>)

\* the second loop of takeDifference from index i on
RECURSIVE takeDifferenceFrom(_, _, _, _, _)
takeDifferenceFrom(current, i, addedByID, addedByText, diff) ==
    IF i > Len(current) THEN diff
    ELSE LET v == current[i]
             original == getOriginalText(v.Text).text
         IN  IF v.Id \in addedByID \/ original \in addedByText
             THEN takeDifferenceFrom(current, i + 1, addedByID, addedByText, diff)
             ELSE takeDifferenceFrom(current, i + 1, addedByID \cup {v.Id},
                                     addedByText \cup {original}, Append(diff, v))

\* takeDifference with a slip: the tweets of previous are not looked at
takeDifference_ignoresPrevious(previous, current) ==
    takeDifferenceFrom(current, 1, {}, {}, <<>>)

takeDifference(previous, current) ==
    takeDifferenceFrom(current, 1,
                       {previous[i].Id : i \in 1..Len(previous)},
                       {getOriginalText(previous[i].Text).text : i \in 1..Len(previous)},
                       <<>>)

\* the filters of getTweets with a slip: the duplicates are removed before
\* the banned tweets
filterTweets_dedupFirst(statuses, bannedQueries, previous) ==
    takeDifference(previous, removeBanned(removeDuplicates(statuses), bannedQueries))

\* the three filters of getTweets, in its order
filterTweets(statuses, bannedQueries, previous) ==
    takeDifference(previous, removeDuplicates(removeBanned(statuses, bannedQueries)))

-----------------------------------------------------------------------------
(* The remote service as the retweet flow sees it *)

userU == [Id |-> 1, Name |-> <<"u">>]
userV == [Id |-> 2, Name |-> <<"v">>]
botUser == [Id |-> 9, Name |-> <<"m">>]

\* a plain tweet, a retweet of the same content, a plain tweet that holds
\* the retweet tag without the ": " separator
tweetA == [Id |-> 1, Text |-> <<"a">>, User |-> userU, Retweeted |-> FALSE]
tweetRTA == [Id |-> 2, Text |-> retweetTextTag \o <<"u">> \o retweetTextIndex \o <<"a">>,
             User |-> userV, Retweeted |-> TRUE]
tweetOld == [Id |-> 3, Text |-> retweetTextTag \o <<"u">>, User |-> userU,
             Retweeted |-> FALSE]

\* what GetSearch may answer: an error or one of these lists of statuses
SearchStatuses ==
    {<<>>, <<tweetA>>, <<tweetOld>>, <<tweetRTA, tweetA>>, <<tweetA, tweetOld>>}

BannedChoices == {<<>>, << <<"v">> >>}

\* the status twitterClient.Retweet answers on success: a new status, with
\* an identifier of its own, whose text is the "RT @name: " form of the
\* retweeted status (the text of a retweet is already in that form)
RetweetResult(tweet) ==
    [Id |-> 10 + tweet.Id,
     Text |-> IF tweet.Retweeted THEN tweet.Text
              ELSE retweetTextTag \o tweet.User.Name \o retweetTextIndex \o tweet.Text,
     User |-> botUser,
     Retweeted |-> TRUE]

-----------------------------------------------------------------------------
(* The retweet flow: RetweetOnce -> autoRetweet -> getTweets, retweet *)

RetweetFlows == {1}

idleFlow == [pc |-> "idle", run |-> 0, banned |-> <<>>, previous |-> <<>>,
             count |-> 0, cycles |-> 0, tweets |-> <<>>, idx |-> 0,
             retweet |-> <<>>, result |-> "none"]

Op(op, id, res, by, arg) == [op |-> op, id |-> id, res |-> res, by |-> by, arg |-> arg]

\* SetRetweetPolicy, called between two invocations of the flow
SetRetweetPolicy(maxTry, like) ==
    /\ phase = "running"
    /\ \A p \in RetweetFlows : rt[p].pc = "idle"
    /\ retweetPolicy # [maxTry |-> maxTry, like |-> like]
    /\ retweetPolicy' = [maxTry |-> maxTry, like |-> like]
    /\ lastOp' = Op("SetRetweetPolicy", maxTry, "ok", 0, <<>>)
    /\ UNCHANGED <<phase, epoch, now, debug, storeVars, removed, tweetsFile, rt, fl, uf,
                   runs, retweeted>>

\* RetweetOnce up to the end of loadTweets
RetweetOnce(p, bannedQueries, loadOk) ==
    /\ phase = "running"
    /\ rt[p].pc = "idle"
    /\ runs < MaxRuns
    /\ runs' = runs + 1
    /\ rt' = [rt EXCEPT ![p] =
                IF loadOk
                THEN [idleFlow EXCEPT !.pc = "search", !.run = runs + 1,
                                      !.banned = bannedQueries,
                                      !.previous = tweetsFile]
                ELSE [idleFlow EXCEPT !.run = runs + 1, !.result = "error"]]
    /\ lastOp' = Op("loadTweets", 0, IF loadOk THEN "ok" ELSE "error", runs + 1, <<>>)
    /\ UNCHANGED <<phase, epoch, now, debug, storeVars, removed, tweetsFile, retweetPolicy,
                   fl, uf, retweeted>>

\* what a GetSearch or a Retweet call may answer: success, an error, the
\* error of an invalid token or of a locked account
RemoteResults == {"ok", "error", "fatal"}

\* one getTweets of the loop of autoRetweet: the search and the filters; an
\* error of GetSearch, whatever it is, is returned to RetweetOnce's caller
GetTweets(p, res, statuses) ==
    /\ phase = "running"
    /\ rt[p].pc = "search"
    /\ rt' = [rt EXCEPT ![p] =
                IF res = "ok"
                THEN [@ EXCEPT !.pc = "retweet", !.cycles = @ + 1, !.idx = 1,
                               !.tweets = filterTweets(statuses, rt[p].banned,
                                                       rt[p].previous)]
                ELSE [idleFlow EXCEPT !.run = rt[p].run, !.result = "error"]]
    /\ lastOp' = Op("GetSearch", 0, res, rt[p].run, <<>>)
    /\ UNCHANGED <<phase, epoch, now, debug, storeVars, removed, tweetsFile, retweetPolicy,
                   fl, uf, runs, retweeted>>

\* retweet(): the Retweet call for the next candidate; an error, whatever it
\* is, is printed and the loop goes on after followUser
RetweetCall(p, res) ==
    /\ phase = "running"
    /\ rt[p].pc = "retweet"
    /\ rt[p].idx <= Len(rt[p].tweets)
    /\ LET tweet == rt[p].tweets[rt[p].idx]
       IN  /\ rt' = [rt EXCEPT ![p] =
                       IF res = "ok"
                       THEN [@ EXCEPT !.pc = "followDone",
                                      !.retweet = RetweetResult(tweet)]
                       ELSE [@ EXCEPT !.pc = "followFailed"]]
           /\ retweeted' = IF res = "ok"
                           THEN retweeted \cup {[tweet |-> tweet, run |-> rt[p].run,
                                                 saved |-> FALSE]}
                           ELSE retweeted
           /\ lastOp' = Op("Retweet", tweet.Id, res, rt[p].run, tweet)
    /\ UNCHANGED <<phase, epoch, now, debug, storeVars, removed, tweetsFile, retweetPolicy,
                   fl, uf, runs>>

\* followUser() of retweet(): FollowUserId for the author of the candidate
FollowUser(p, res) ==
    /\ rt[p].pc \in {"followDone", "followFailed"}
    /\ phase = "running"
    /\ LET tweet == rt[p].tweets[rt[p].idx]
       IN  lastOp' = Op("FollowUserId", tweet.User.Id, res, "retweet", <<>>)
    /\ phase' = IF res = "fatal" THEN "dead" ELSE phase
    /\ rt' = [rt EXCEPT ![p] =
                IF rt[p].pc = "followDone"
                THEN [@ EXCEPT !.pc = "append"]
                ELSE [@ EXCEPT !.pc = "retweet", !.idx = @ + 1]]
    /\ UNCHANGED <<epoch, now, debug, storeVars, removed, tweetsFile, retweetPolicy,
                   fl, uf, runs, retweeted>>

\* retweet() found nothing to retweet: autoRetweet counts the try
RetweetFailed(p) ==
    /\ phase = "running"
    /\ rt[p].pc = "retweet"
    /\ rt[p].idx > Len(rt[p].tweets)
    /\ rt' = [rt EXCEPT ![p] =
                IF rt[p].count < retweetPolicy.maxTry
                THEN [@ EXCEPT !.pc = "search", !.count = @ + 1]
                ELSE [idleFlow EXCEPT !.run = rt[p].run, !.result = "error"]]
    /\ lastOp' = Op("unableToRetweet", 0, "error", rt[p].run, <<>>)
    /\ UNCHANGED <<phase, epoch, now, debug, storeVars, removed, tweetsFile, retweetPolicy,
                   fl, uf, runs, retweeted>>

\* the end of autoRetweet: the append to the ledger and its save, whose
\* error is dropped
AppendAndSave(p, saveOk) ==
    /\ phase = "running"
    /\ rt[p].pc = "append"
    /\ LET previous == Append(rt[p].previous, rt[p].retweet)
       IN  /\ rt' = [rt EXCEPT ![p] = [idleFlow EXCEPT !.run = rt[p].run,
                                                       !.result = "ok"]]
           /\ tweetsFile' = IF saveOk THEN previous ELSE tweetsFile
    /\ retweeted' = {IF d.run = rt[p].run THEN [d EXCEPT !.saved = saveOk] ELSE d :
                        d \in retweeted}
    /\ lastOp' = Op("saveTweets", 0, IF saveOk THEN "ok" ELSE "error", rt[p].run, <<>>)
    /\ UNCHANGED <<phase, epoch, now, debug, storeVars, removed, retweetPolicy, fl, uf,
                   runs>>

FollowResults == {"ok", "unable", "error", "fatal"}

NextRetweet ==
    \/ \E maxTry \in 1..MaxTryBound, like \in BOOLEAN : SetRetweetPolicy(maxTry, like)
          /\ UNCHANGED auxVars
    \/ \E p \in RetweetFlows, b \in BannedChoices, ok \in BOOLEAN : RetweetOnce(p, b, ok)
          /\ UNCHANGED auxVars
    \/ \E p \in RetweetFlows, res \in RemoteResults, s \in SearchStatuses :
          GetTweets(p, res, s)
          /\ UNCHANGED auxVars
    \/ \E p \in RetweetFlows, res \in RemoteResults : RetweetCall(p, res)
          /\ UNCHANGED auxVars
    \/ \E p \in RetweetFlows, res \in FollowResults : FollowUser(p, res)
          /\ UNCHANGED auxVars
    \/ \E p \in RetweetFlows : RetweetFailed(p) /\ UNCHANGED auxVars
    \/ \E p \in RetweetFlows, ok \in BOOLEAN : AppendAndSave(p, ok) /\ UNCHANGED auxVars

\* a record of the friends (or followers) map
friendSince(ts, follow) == [Timestamp |-> ts, Follow |-> follow]

FriendsChoices ==
    {<<>>, (FormatInt(1) :> friendSince(0, TRUE)),
     (FormatInt(1) :> friendSince(0, TRUE)) @@ (FormatInt(2) :> friendSince(0, FALSE))}

\* the state once MakeTwitterBot has returned: the policies it sets, the
\* friends and followers its reconciliation left, the ledger as stored
InitRetweet ==
    /\ phase = "running"
    /\ epoch = 0
    /\ now = 0
    /\ debug = FALSE
    /\ friends \in FriendsChoices
    /\ friendsFile = friends
    /\ followers = <<>>
    /\ followersFile = <<>>
    /\ tweetsFile = <<>>
    /\ retweetPolicy = [maxTry |-> defaultMaxTry, like |-> TRUE]
    /\ rt = [p \in RetweetFlows |-> idleFlow]
    /\ fl = [pc |-> "idle"]
    /\ uf = [pc |-> "idle"]
    /\ runs = 0
    /\ retweeted = {}
    /\ removed = {}
    /\ lastOp = Op("MakeTwitterBot", 0, "ok", 0, <<>>)
    /\ auxInit

SpecRetweet == InitRetweet /\ [][NextRetweet]_vars

-----------------------------------------------------------------------------
(* RelationshipStore: updateFollowers / updateFriends, addFriend,
   unfollowFriend, getFriend, isFollower, getFriendToUnFollow *)

Keys(ids) == {FormatInt(id) : id \in ids}

\* reconcile with a slip: a stored record that the remote stream does not
\* give keeps its flag
reconcile_keepsFlag(stored, ids, time) ==
    [k \in DOMAIN stored \cup Keys(ids) |->
        IF k \in DOMAIN stored
        THEN [Timestamp |-> stored[k].Timestamp,
              Follow |-> stored[k].Follow \/ k \in Keys(ids)]
        ELSE [Timestamp |-> time, Follow |-> TRUE]]

\* reconcile with a slip: a stored record that the remote stream gives is
\* written anew, with the current time
reconcile_stampsAgain(stored, ids, time) ==
    [k \in DOMAIN stored \cup Keys(ids) |->
        IF k \in DOMAIN stored /\ k \notin Keys(ids)
        THEN [Timestamp |-> stored[k].Timestamp, Follow |-> FALSE]
        ELSE [Timestamp |-> time, Follow |-> TRUE]]

\* the body of updateFriends / updateFollowers between the load and the
\* save: every stored record is flagged false, every identifier the remote
\* stream gives is flagged true, or inserted with the current time
reconcile(stored, ids, time) ==
    [k \in DOMAIN stored \cup Keys(ids) |->
        IF k \in DOMAIN stored
        THEN [Timestamp |-> stored[k].Timestamp, Follow |-> k \in Keys(ids)]
        ELSE [Timestamp |-> time, Follow |-> TRUE]]

\* the map addFriend leaves
addFriend(users, id, time) ==
    [k \in DOMAIN users \cup {FormatInt(id)} |->
        IF k = FormatInt(id) THEN [Timestamp |-> time, Follow |-> TRUE]
        ELSE users[k]]

\* unfollowFriend with a slip: the record is deleted instead of flagged
unfollowFriend_deletes(users, id) ==
    [k \in DOMAIN users \ {FormatInt(id)} |-> users[k]]

\* the map unfollowFriend leaves, for an identifier that has a record
unfollowFriend(users, id) ==
    [users EXCEPT ![FormatInt(id)] = [@ EXCEPT !.Follow = FALSE]]

\* getFriend with a slip: a record flagged false is not found
getFriend_followedOnly(users, id) ==
    IF FormatInt(id) \in DOMAIN users /\ users[FormatInt(id)].Follow
    THEN [user |-> [Timestamp |-> users[FormatInt(id)].Timestamp,
                    Follow |-> users[FormatInt(id)].Follow],
          ok |-> TRUE]
    ELSE [user |-> <<>>, ok |-> FALSE]

\* getFriend: a copy of the record and whether there is one
getFriend(users, id) ==
    IF FormatInt(id) \in DOMAIN users
    THEN [user |-> [Timestamp |-> users[FormatInt(id)].Timestamp,
                    Follow |-> users[FormatInt(id)].Follow],
          ok |-> TRUE]
    ELSE [user |-> <<>>, ok |-> FALSE]

isFollower(users, id) == FormatInt(id) \in DOMAIN users

\* the test of getFriendToUnFollow with a slip: the flag is not looked at
toUnFollow_anyFlag(user, time) ==
    ~(time - user.Timestamp < oneDayInTicks)

\* the test of the loop of getFriendToUnFollow: the record is kept for the
\* unfollow when it is followed and in the database for at least one day
toUnFollow(user, time) ==
    ~(time - user.Timestamp < oneDayInTicks \/ ~user.Follow)

\* getFriendToUnFollow with a slip: the map is ranged over in the order of
\* its keys, so the record with the smallest identifier that passes the test
\* is always the one returned
getFriendToUnFollow_firstKey(users, time) ==
    LET found == {ParseInt(k) : k \in {j \in DOMAIN users : toUnFollow(users[j], time)}}
    IN  IF found = {} THEN {[id |-> 0, ok |-> FALSE]}
        ELSE {[id |-> CHOOSE i \in found : \A j \in found : i <= j, ok |-> TRUE]}

\* what getFriendToUnFollow may return: the map is ranged over in an order
\* that is not specified, so any record that passes the test may be the first
getFriendToUnFollow(users, time) ==
    LET found == {k \in DOMAIN users : toUnFollow(users[k], time)}
    IN  IF found = {} THEN {[id |-> 0, ok |-> FALSE]}
        ELSE {[id |-> ParseInt(k), ok |-> TRUE] : k \in found}

-----------------------------------------------------------------------------
(* The process: construction (the two reconciliations), restart, clock *)

RemoteFollowers == {{}, {3}}
RemoteFriends == {{}, {1}, {1, 2}}

\* updateFollowers, called by MakeTwitterBotWithCredentials; an error ends
\* the process (log.Fatalln)
UpdateFollowers(loadOk, ids, saveOk) ==
    /\ phase = "boot0"
    /\ LET updated == reconcile(followersFile, ids, now)
       IN  IF loadOk /\ saveOk
           THEN /\ followersFile' = updated
                /\ followers' = updated
                /\ phase' = "boot1"
                /\ lastOp' = Op("updateFollowers", 0, "ok", "boot", ids)
           ELSE /\ UNCHANGED <<followersFile, followers>>
                /\ phase' = "dead"
                /\ lastOp' = Op("updateFollowers", 0, "error", "boot", ids)
    /\ UNCHANGED <<epoch, now, debug, friendsFile, friends, tweetsFile,
                   retweetPolicy, rt, fl, uf, runs, retweeted, removed>>

\* updateFriends, called next
UpdateFriends(loadOk, ids, saveOk) ==
    /\ phase = "boot1"
    /\ LET updated == reconcile(friendsFile, ids, now)
       IN  IF loadOk /\ saveOk
           THEN /\ friendsFile' = updated
                /\ friends' = updated
                /\ phase' = "running"
                /\ removed' = removed \ ids
                /\ lastOp' = Op("updateFriends", 0, "ok", "boot", ids)
           ELSE /\ UNCHANGED <<friendsFile, friends, removed>>
                /\ phase' = "dead"
                /\ lastOp' = Op("updateFriends", 0, "error", "boot", ids)
    /\ UNCHANGED <<epoch, now, debug, followersFile, followers, tweetsFile,
                   retweetPolicy, rt, fl, uf, runs, retweeted>>

idleFollow == [pc |-> "idle", ids |-> <<>>, idx |-> 0,
               sawFriend |-> FALSE, sawFollower |-> FALSE]
idleUnfollow == [pc |-> "idle", id |-> 0, ok |-> FALSE, got |-> <<>>]

\* the process ends (at any time) and a new one is made over the same
\* files: the bot is built with empty maps and default policies
Restart ==
    /\ epoch < MaxRestarts
    /\ phase \in {"running", "dead"}
    /\ epoch' = epoch + 1
    /\ phase' = "boot0"
    /\ followers' = <<>>
    /\ friends' = <<>>
    /\ fl' = idleFollow
    /\ uf' = idleUnfollow
    /\ lastOp' = Op("MakeTwitterBot", 0, "ok", "boot", {})
    /\ UNCHANGED <<now, debug, followersFile, friendsFile, tweetsFile,
                   retweetPolicy, rt, runs, retweeted, removed>>

\* time passes
Tick ==
    /\ now < MaxTime
    /\ now' = now + 1
    /\ lastOp' = Op("tick", 0, "ok", "clock", {})
    /\ UNCHANGED <<phase, epoch, debug, storeVars, tweetsFile, retweetPolicy,
                   rt, fl, uf, runs, retweeted, removed>>

-----------------------------------------------------------------------------
(* The follow-followers flow: AutoFollowFollowers -> followAll *)

\* the identifiers fetchUserIds may hand to followAll
FetchedIds == {<<1, 3>>, <<2, 2>>, <<3, 1>>}

AutoFollowFollowers(ids) ==
    /\ phase = "running"
    /\ fl.pc = "idle"
    /\ fl' = [idleFollow EXCEPT !.pc = "getFriend", !.ids = ids, !.idx = 1]
    /\ lastOp' = Op("AutoFollowFollowers", 0, "ok", "followAll", ids)
    /\ UNCHANGED <<phase, epoch, now, debug, storeVars, tweetsFile, retweetPolicy,
                   rt, uf, runs, retweeted, removed>>

\* followAll: the loop is over
FollowAllEnd ==
    /\ phase = "running"
    /\ fl.pc = "getFriend"
    /\ fl.idx > Len(fl.ids)
    /\ fl' = [fl EXCEPT !.pc = "done"]
    /\ lastOp' = Op("followAllEnd", 0, "ok", "followAll", {})
    /\ UNCHANGED <<phase, epoch, now, debug, storeVars, tweetsFile, retweetPolicy,
                   rt, uf, runs, retweeted, removed>>

\* followAll: getFriend(id) for the next identifier; a friend is skipped
FollowGetFriend ==
    /\ phase = "running"
    /\ fl.pc = "getFriend"
    /\ fl.idx <= Len(fl.ids)
    /\ LET id == fl.ids[fl.idx]
           ok == getFriend(friends, id).ok
       IN  /\ fl' = [fl EXCEPT !.pc = IF ok THEN "getFriend" ELSE "isFollower",
                               !.idx = IF ok THEN @ + 1 ELSE @,
                               !.sawFriend = FormatInt(id) \in DOMAIN friends,
                               !.sawFollower = FALSE]
           /\ lastOp' = Op("getFriend", id, IF ok THEN "skip" ELSE "none",
                           "followAll", {})
    /\ UNCHANGED <<phase, epoch, now, debug, storeVars, tweetsFile, retweetPolicy,
                   rt, uf, runs, retweeted, removed>>

\* followAll: isFollower(id); a follower is skipped
FollowIsFollower ==
    /\ phase = "running"
    /\ fl.pc = "isFollower"
    /\ LET id == fl.ids[fl.idx]
           ok == isFollower(followers, id)
       IN  /\ fl' = [fl EXCEPT !.pc = IF ok THEN "getFriend" ELSE "follow",
                               !.idx = IF ok THEN @ + 1 ELSE @,
                               !.sawFollower = FormatInt(id) \in DOMAIN followers]
           /\ lastOp' = Op("isFollower", id, IF ok THEN "skip" ELSE "none",
                           "followAll", {})
    /\ UNCHANGED <<phase, epoch, now, debug, storeVars, tweetsFile, retweetPolicy,
                   rt, uf, runs, retweeted, removed>>

\* where followAll goes after FollowUserId answered res: on to addFriend
\* when there is no error, and also when checkUnableToFollowAtThisTime
\* has waited and returned true; to the next identifier for another error
afterFollow(res) ==
    IF res = "ok" \/ res = "unable" THEN "addFriend" ELSE "getFriend"

\* followAll: the FollowUserId call and the test of its error
FollowCall(res) ==
    /\ phase = "running"
    /\ fl.pc = "follow"
    /\ phase' = IF res = "fatal" THEN "dead" ELSE phase
    /\ fl' = [fl EXCEPT !.pc = afterFollow(res),
                        !.idx = IF afterFollow(res) = "getFriend" THEN @ + 1 ELSE @]
    /\ lastOp' = Op("FollowUserId", fl.ids[fl.idx], res, "followAll", {})
    /\ UNCHANGED <<epoch, now, debug, storeVars, tweetsFile, retweetPolicy,
                   rt, uf, runs, retweeted, removed>>

\* followAll: addFriend(id) with its save, whose error ends the process
FollowAddFriend(saveOk) ==
    /\ phase = "running"
    /\ fl.pc = "addFriend"
    /\ LET id == fl.ids[fl.idx]
       IN  /\ friends' = addFriend(friends, id, now)
           /\ friendsFile' = IF saveOk THEN friends' ELSE friendsFile
           /\ removed' = removed \ {id}
           /\ lastOp' = Op("addFriend", id, IF saveOk THEN "ok" ELSE "error",
                           "followAll", {})
    /\ phase' = IF saveOk THEN phase ELSE "dead"
    /\ fl' = [fl EXCEPT !.pc = "sleep"]
    /\ UNCHANGED <<epoch, now, debug, followersFile, followers, tweetsFile,
                   retweetPolicy, rt, uf, runs, retweeted>>

\* followAll: controlledSleep, then the next identifier
FollowSleep ==
    /\ phase = "running"
    /\ fl.pc = "sleep"
    /\ fl' = [fl EXCEPT !.pc = "getFriend", !.idx = @ + 1]
    /\ lastOp' = Op("controlledSleep", 0, IF debug THEN "none" ELSE "slept",
                    "followAll", {})
    /\ UNCHANGED <<phase, epoch, now, debug, storeVars, tweetsFile, retweetPolicy,
                   rt, uf, runs, retweeted, removed>>

-----------------------------------------------------------------------------
(* The unfollow-all flow: AutoUnfollowFriendsAsync -> unfollowAll *)

UnfollowResults == {"ok", "error", "fatal"}

\* unfollowAll with a slip: it is not entered again after the 3 hours wait
UnfollowAllEnter_once ==
    /\ phase = "running"
    /\ uf.pc = "idle"
    /\ uf' = [pc |-> "body", id |-> 0, ok |-> TRUE, got |-> <<>>]
    /\ lastOp' = Op("AutoUnfollowFriendsAsync", 0, "ok", "unfollowAll", {})
    /\ UNCHANGED <<phase, epoch, now, debug, storeVars, tweetsFile, retweetPolicy,
                   rt, fl, runs, retweeted, removed>>

\* unfollowAll is entered: 'var id int64' and 'ok := true', then the loop
\* condition, which holds, then the body
UnfollowAllEnter ==
    /\ phase = "running"
    /\ uf.pc \in {"idle", "wait"}
    /\ uf' = [pc |-> "body", id |-> 0, ok |-> TRUE, got |-> <<>>]
    /\ lastOp' = Op(IF uf.pc = "idle" THEN "AutoUnfollowFriendsAsync" ELSE "sleep3h",
                    0, "ok", "unfollowAll", {})
    /\ UNCHANGED <<phase, epoch, now, debug, storeVars, tweetsFile, retweetPolicy,
                   rt, fl, runs, retweeted, removed>>

\* the body of the loop: UnfollowUserId(id) and the test of its error
UnfollowCall(res) ==
    /\ phase = "running"
    /\ uf.pc = "body"
    /\ phase' = IF res = "fatal" THEN "dead" ELSE phase
    /\ uf' = [uf EXCEPT !.pc = IF res = "ok" THEN "unfollowFriend" ELSE "next"]
    /\ lastOp' = Op("UnfollowUserId", uf.id, res, "unfollowAll", {})
    /\ UNCHANGED <<epoch, now, debug, storeVars, tweetsFile, retweetPolicy,
                   rt, fl, runs, retweeted, removed>>

\* unfollowFriend(id) with its save; the process ends on a save error, and
\* on the nil record of an identifier the map does not hold
UnfollowFriend(saveOk) ==
    /\ phase = "running"
    /\ uf.pc = "unfollowFriend"
    /\ IF FormatInt(uf.id) \in DOMAIN friends
       THEN /\ friends' = unfollowFriend(friends, uf.id)
            /\ friendsFile' = IF saveOk THEN friends' ELSE friendsFile
            /\ removed' = removed \cup {uf.id}
            /\ phase' = IF saveOk THEN phase ELSE "dead"
            /\ lastOp' = Op("unfollowFriend", uf.id, IF saveOk THEN "ok" ELSE "error",
                            "unfollowAll", {})
       ELSE /\ UNCHANGED <<friends, friendsFile, removed>>
            /\ phase' = "dead"
            /\ lastOp' = Op("unfollowFriend", uf.id, "panic", "unfollowAll", {})
    /\ uf' = [uf EXCEPT !.pc = "sleep"]
    /\ UNCHANGED <<epoch, now, debug, followersFile, followers, tweetsFile,
                   retweetPolicy, rt, fl, runs, retweeted>>

\* controlledSleep at the end of the body
UnfollowSleep ==
    /\ phase = "running"
    /\ uf.pc = "sleep"
    /\ uf' = [uf EXCEPT !.pc = "next"]
    /\ lastOp' = Op("controlledSleep", 0, IF debug THEN "none" ELSE "slept",
                    "unfollowAll", {})
    /\ UNCHANGED <<phase, epoch, now, debug, storeVars, tweetsFile, retweetPolicy,
                   rt, fl, runs, retweeted, removed>>

\* the post statement of the loop, 'id, ok = t.getFriendToUnFollow()', and
\* the loop condition: the body again, or out of the loop to the 3 hours wait
UnfollowNext ==
    /\ phase = "running"
    /\ uf.pc = "next"
    /\ \E r \in getFriendToUnFollow(friends, now) :
        /\ uf' = [pc |-> IF r.ok THEN "body" ELSE "wait", id |-> r.id, ok |-> r.ok,
                  got |-> r]
        /\ lastOp' = Op("getFriendToUnFollow", r.id, IF r.ok THEN "found" ELSE "none",
                        "unfollowAll", {})
    /\ UNCHANGED <<phase, epoch, now, debug, storeVars, tweetsFile, retweetPolicy,
                   rt, fl, runs, retweeted, removed>>

-----------------------------------------------------------------------------
(* The store and its two flows *)

StoredUsers == {<<>>, (FormatInt(1) :> friendSince(0, TRUE))}

\* MakeTwitterBotWithCredentials has built the bot (empty maps, default
\* policies) and is about to reconcile it with the files and the remote
Init ==
    /\ phase = "boot0"
    /\ epoch = 0
    /\ now = 0
    /\ debug = FALSE
    /\ friendsFile \in StoredUsers
    /\ followersFile = <<>>
    /\ friends = <<>>
    /\ followers = <<>>
    /\ tweetsFile = <<>>
    /\ retweetPolicy = [maxTry |-> defaultMaxTry, like |-> TRUE]
    /\ rt = [p \in RetweetFlows |-> idleFlow]
    /\ fl = idleFollow
    /\ uf = idleUnfollow
    /\ runs = 0
    /\ retweeted = {}
    /\ removed = {}
    /\ lastOp = Op("MakeTwitterBot", 0, "ok", "boot", {})
    /\ auxInit

Next ==
    \/ \E loadOk \in BOOLEAN, ids \in RemoteFollowers, saveOk \in BOOLEAN :
          UpdateFollowers(loadOk, ids, saveOk)
          /\ UNCHANGED auxVars
    \/ \E loadOk \in BOOLEAN, ids \in RemoteFriends, saveOk \in BOOLEAN :
          UpdateFriends(loadOk, ids, saveOk)
          /\ UNCHANGED auxVars
    \/ Restart /\ UNCHANGED auxVars
    \/ Tick /\ UNCHANGED auxVars
    \/ \E ids \in FetchedIds : AutoFollowFollowers(ids) /\ UNCHANGED auxVars
    \/ FollowAllEnd /\ UNCHANGED auxVars
    \/ FollowGetFriend /\ UNCHANGED auxVars
    \/ FollowIsFollower /\ UNCHANGED auxVars
    \/ \E res \in FollowResults : FollowCall(res) /\ UNCHANGED auxVars
    \/ \E saveOk \in BOOLEAN : FollowAddFriend(saveOk) /\ UNCHANGED auxVars
    \/ FollowSleep /\ UNCHANGED auxVars
    \/ UnfollowAllEnter /\ UNCHANGED auxVars
    \/ \E res \in UnfollowResults : UnfollowCall(res) /\ UNCHANGED auxVars
    \/ \E saveOk \in BOOLEAN : UnfollowFriend(saveOk) /\ UNCHANGED auxVars
    \/ UnfollowSleep /\ UNCHANGED auxVars
    \/ UnfollowNext /\ UNCHANGED auxVars

Spec == Init /\ [][Next]_vars

-----------------------------------------------------------------------------
(* Claims about the retweet flow *)

\* the two tweets are the same for the ledger: same identifier, or same
\* outcome of getOriginalText
SameTweet(a, b) ==
    \/ a.Id = b.Id
    \/ getOriginalText(a.Text) = getOriginalText(b.Text)

\* C1: no retweet call is issued for a tweet whose identifier or normalized
\* text matches a tweet that an earlier RetweetOnce invocation retweeted
\* (the earlier invocations that share the ledger: those whose save of the
\* ledger succeeded).
C1_NoRetweetOfRetweeted ==
    lastOp.op = "Retweet" =>
        \A d \in retweeted :
            d.run < lastOp.by /\ d.saved => ~SameTweet(d.tweet, lastOp.arg)

\* C2: one RetweetOnce invocation performs at most retweetPolicy.maxTry
\* search-and-retweet cycles; it never starts cycle number maxTry + 1.
C2_AtMostMaxTryCycles ==
    \A p \in RetweetFlows :
        rt[p].pc # "idle" => rt[p].cycles <= retweetPolicy.maxTry

\* C3: no remote follow call is issued for an identifier that the friends
\* set records as a friend, in any flow, the follow of a tweet's author by the
\* retweet flow included.
C3_NoFollowOfFriend ==
    lastOp.op = "FollowUserId" =>
        ~(/\ FormatInt(lastOp.id) \in DOMAIN friends
          /\ friends[FormatInt(lastOp.id)].Follow)

-----------------------------------------------------------------------------
(* Claims about the store and its two flows *)

HasRecord(users, id) == FormatInt(id) \in DOMAIN users

\* C4: the unfollow-all flow issues the unfollow call only for an identifier
\* that getFriendToUnFollow has just returned: one whose friend record
\* exists, is followed and is at least one day old.
C4_UnfollowOnlyReturnedFriend ==
    lastOp.op = "UnfollowUserId" =>
        /\ uf.got # <<>>
        /\ uf.got.ok
        /\ uf.got.id = lastOp.id
        /\ HasRecord(friends, lastOp.id)
        /\ friends[FormatInt(lastOp.id)].Follow
        /\ now - friends[FormatInt(lastOp.id)].Timestamp >= oneDayInTicks

\* C5: when the follow call of followAll fails with 'unable to follow more
\* people at this time', the flow, once it has waited, is to issue the follow
\* call for the same identifier again: it does not move on.
C5_RetrySameIdentifier ==
    (lastOp.op = "FollowUserId" /\ lastOp.by = "followAll" /\ lastOp.res = "unable") =>
        /\ fl.pc = "follow"
        /\ fl.ids[fl.idx] = lastOp.id

\* C6: followAll issues no follow call for an identifier that had a record
\* in the friends map or in the followers map when it was examined, whatever
\* the flag of the record; such an identifier is skipped and the store is
\* left as it was.
C6_FollowAllSkipsRecorded ==
    [][/\ (lastOp'.op = "FollowUserId" /\ lastOp'.by = "followAll") =>
              (~fl.sawFriend /\ ~fl.sawFollower)
       /\ (lastOp'.op = "getFriend" /\ HasRecord(friends, lastOp'.id)) =>
              (fl'.pc = "getFriend" /\ fl'.idx = fl.idx + 1 /\ UNCHANGED storeVars)
       /\ (lastOp'.op = "isFollower" /\ HasRecord(followers, lastOp'.id)) =>
              (fl'.pc = "getFriend" /\ fl'.idx = fl.idx + 1 /\ UNCHANGED storeVars)
      ]_vars

\* an identifier is skipped for a friend record that is flagged false
C6_Witness ==
    /\ lastOp.op = "getFriend"
    /\ lastOp.res = "skip"
    /\ ~friends[FormatInt(lastOp.id)].Follow

\* the result of a reconciliation of the stored map with the identifiers
\* of the remote stream
ReconciledExactly(stored, ids, result) ==
    /\ DOMAIN result = DOMAIN stored \cup Keys(ids)
    /\ \A k \in DOMAIN result : result[k].Follow <=> k \in Keys(ids)

\* C7: after updateFriends / updateFollowers succeeds, a record of the
\* resulting map is flagged true if and only if its identifier was in the
\* remote stream; every stored identifier that was not is there, flagged false.
C7_ReconcileFlagsObserved ==
    [][/\ (lastOp'.op = "updateFriends" /\ lastOp'.res = "ok") =>
              (/\ ReconciledExactly(friendsFile, lastOp'.arg, friends')
               /\ friendsFile' = friends')
       /\ (lastOp'.op = "updateFollowers" /\ lastOp'.res = "ok") =>
              (/\ ReconciledExactly(followersFile, lastOp'.arg, followers')
               /\ followersFile' = followers')
      ]_vars

\* a reconciliation left a record flagged true and one flagged false
C7_Witness ==
    /\ lastOp.op = "updateFriends"
    /\ lastOp.res = "ok"
    /\ \E k \in DOMAIN friends : friends[k].Follow
    /\ \E k \in DOMAIN friends : ~friends[k].Follow

SameTimestamps(stored, result) ==
    \A k \in DOMAIN stored :
        k \in DOMAIN result /\ result[k].Timestamp = stored[k].Timestamp

\* C8: a reconciliation, however often repeated, never changes the
\* timestamp of an identifier the stored map already holds.
C8_ReconcileKeepsTimestamps ==
    [][/\ lastOp'.op = "updateFriends" =>
              (/\ SameTimestamps(friendsFile, friendsFile')
               /\ lastOp'.res = "ok" => SameTimestamps(friendsFile, friends'))
       /\ lastOp'.op = "updateFollowers" =>
              (/\ SameTimestamps(followersFile, followersFile')
               /\ lastOp'.res = "ok" => SameTimestamps(followersFile, followers'))
      ]_vars

\* a second reconciliation, later than the timestamp of a record it flags
C8_Witness ==
    /\ lastOp.op = "updateFriends"
    /\ lastOp.res = "ok"
    /\ epoch >= 1
    /\ \E k \in DOMAIN friends :
          friends[k].Timestamp < now /\ friends[k].Follow /\ k \in Keys(lastOp.arg)

\* C9: the identifiers of the friends and of the followers maps never
\* shrink: of the stored maps over every step, of the maps in memory over
\* every step of one process.
C9_RecordsNeverDeleted ==
    [][/\ DOMAIN friendsFile \subseteq DOMAIN friendsFile'
       /\ DOMAIN followersFile \subseteq DOMAIN followersFile'
       /\ epoch' = epoch =>
              (/\ DOMAIN friends \subseteq DOMAIN friends'
               /\ DOMAIN followers \subseteq DOMAIN followers')
      ]_vars

\* unfollowFriend has flagged a record, which is still there
C9_Witness ==
    /\ lastOp.op = "unfollowFriend"
    /\ lastOp.res = "ok"
    /\ HasRecord(friends, lastOp.id)
    /\ HasRecord(friendsFile, lastOp.id)
    /\ ~friends[FormatInt(lastOp.id)].Follow

\* C10: getFriendToUnFollow never returns an identifier whose record is
\* younger than one day or flagged false; after unfollowFriend(id) it does
\* not return id unless the record was flagged true again since.
C10_UnfollowCandidateEligible ==
    (lastOp.op = "getFriendToUnFollow" /\ lastOp.res = "found") =>
        /\ HasRecord(friends, lastOp.id)
        /\ friends[FormatInt(lastOp.id)].Follow
        /\ now - friends[FormatInt(lastOp.id)].Timestamp >= oneDayInTicks
        /\ lastOp.id \notin removed

\* a candidate is returned while another friend was unfollowed before and a
\* third one is followed for less than a day
C10_Witness ==
    /\ lastOp.op = "getFriendToUnFollow"
    /\ lastOp.res = "found"
    /\ removed # {}
    /\ \E k \in DOMAIN friends :
          friends[k].Follow /\ now - friends[k].Timestamp < oneDayInTicks

-----------------------------------------------------------------------------
(* The unfollow-all flow on its own, with the scheduling of the runtime *)

UnfollowIds == {1, 2}

\* the friends maps the flow may be started over: records of two users,
\* followed or not, inserted at time 0 or 1
UnfollowFriendsChoices ==
    [Keys(UnfollowIds) -> {friendSince(ts, follow) : ts \in 0..1, follow \in BOOLEAN}]

\* the bot once MakeTwitterBot has returned, before AutoUnfollowFriendsAsync
InitUnfollow ==
    /\ phase = "running"
    /\ epoch = 0
    /\ now = 0
    /\ debug = FALSE
    /\ friends \in UnfollowFriendsChoices
    /\ friendsFile = friends
    /\ followers = <<>>
    /\ followersFile = <<>>
    /\ tweetsFile = <<>>
    /\ retweetPolicy = [maxTry |-> defaultMaxTry, like |-> TRUE]
    /\ rt = [p \in RetweetFlows |-> idleFlow]
    /\ fl = idleFollow
    /\ uf = idleUnfollow
    /\ runs = 0
    /\ retweeted = {}
    /\ removed = {}
    /\ lastOp = Op("MakeTwitterBot", 0, "ok", "boot", {})
    /\ auxInit

NextUnfollow ==
    \/ Tick /\ UNCHANGED auxVars
    \/ UnfollowAllEnter /\ UNCHANGED auxVars
    \/ \E res \in UnfollowResults : UnfollowCall(res) /\ UNCHANGED auxVars
    \/ \E saveOk \in BOOLEAN : UnfollowFriend(saveOk) /\ UNCHANGED auxVars
    \/ UnfollowSleep /\ UNCHANGED auxVars
    \/ UnfollowNext /\ UNCHANGED auxVars

\* the step of getFriendToUnFollow that returns id
UnfollowNextReturns(id) == UnfollowNext /\ uf'.ok /\ uf'.id = id

\* the goroutine of unfollowAll is scheduled again and again, its sleeps
\* end, and the range over the map starts at a place the runtime draws at
\* random for every range statement: a record that passes the test again
\* and again is not passed over for ever
FairUnfollow ==
    /\ WF_vars(UnfollowAllEnter /\ UNCHANGED auxVars)
    /\ WF_vars(\E res \in UnfollowResults : UnfollowCall(res) /\ UNCHANGED auxVars)
    /\ WF_vars(\E saveOk \in BOOLEAN : UnfollowFriend(saveOk) /\ UNCHANGED auxVars)
    /\ WF_vars(UnfollowSleep /\ UNCHANGED auxVars)
    /\ WF_vars(UnfollowNext /\ UNCHANGED auxVars)
    /\ \A id \in UnfollowIds : SF_vars(UnfollowNextReturns(id) /\ UNCHANGED auxVars)

SpecUnfollow == InitUnfollow /\ [][NextUnfollow]_vars /\ FairUnfollow

UnfollowRuns == phase = "running" /\ uf.pc # "idle"

-----------------------------------------------------------------------------
(* MessageComposer: truncate *)

tweetTextMaxSize == 140
tweetTruncatedTextMin == 30
tcoLinksMaxLength == 24

MaxMsgLen == 145    \* longest message composed
MaxLinkLen == 145   \* longest link composed, and largest width reserved for it

\* truncate with a slip: the room kept for the link forgets the three dots
truncate_shortSep(msg, archiveURL, urlMaxLength) ==
    LET sep == <<".", ".", ".", " ">>
        emptySep == <<" ">>
        left == Len(msg) + Len(emptySep) + urlMaxLength - tweetTextMaxSize
    IN  IF urlMaxLength = 0
        THEN IF Len(msg) > tweetTextMaxSize
             THEN SubSeq(msg, 1, tweetTextMaxSize - Len(sep)) \o SubSeq(sep, 1, Len(sep) - 1)
             ELSE msg
        ELSE IF Len(msg) + Len(emptySep) + urlMaxLength <= tweetTextMaxSize
        THEN msg \o emptySep \o archiveURL
        ELSE IF Len(msg) - left >= tweetTruncatedTextMin
        THEN SubSeq(msg, 1, Len(msg) - left) \o sep \o archiveURL
        ELSE IF urlMaxLength <= tweetTextMaxSize THEN archiveURL
        ELSE IF Len(msg) <= tweetTextMaxSize THEN msg
        ELSE SubSeq(msg, 1, tweetTextMaxSize - 1)

\* truncate with a slip: without a link, the whole of "... " is appended
truncate_wholeSep(msg, archiveURL, urlMaxLength) ==
    LET sep == <<".", ".", ".", " ">>
        emptySep == <<" ">>
        left == Len(msg) + Len(sep) + urlMaxLength - tweetTextMaxSize
    IN  IF urlMaxLength = 0
        THEN IF Len(msg) > tweetTextMaxSize
             THEN SubSeq(msg, 1, tweetTextMaxSize - Len(sep)) \o sep
             ELSE msg
        ELSE IF Len(msg) + Len(emptySep) + urlMaxLength <= tweetTextMaxSize
        THEN msg \o emptySep \o archiveURL
        ELSE IF Len(msg) - left >= tweetTruncatedTextMin
        THEN SubSeq(msg, 1, Len(msg) - left) \o sep \o archiveURL
        ELSE IF urlMaxLength <= tweetTextMaxSize THEN archiveURL
        ELSE IF Len(msg) <= tweetTextMaxSize THEN msg
        ELSE SubSeq(msg, 1, tweetTextMaxSize - 1)

\* truncate(msg, archiveURL, urlMaxLength), on texts of one-byte characters
truncate(msg, archiveURL, urlMaxLength) ==
    LET sep == <<".", ".", ".", " ">>
        emptySep == <<" ">>
        left == Len(msg) + Len(sep) + urlMaxLength - tweetTextMaxSize
    IN  IF urlMaxLength = 0
        THEN IF Len(msg) > tweetTextMaxSize
             THEN SubSeq(msg, 1, tweetTextMaxSize - Len(sep)) \o SubSeq(sep, 1, Len(sep) - 1)
             ELSE msg
        ELSE IF Len(msg) + Len(emptySep) + urlMaxLength <= tweetTextMaxSize
        THEN msg \o emptySep \o archiveURL
        ELSE IF Len(msg) - left >= tweetTruncatedTextMin
        THEN SubSeq(msg, 1, Len(msg) - left) \o sep \o archiveURL
        ELSE IF urlMaxLength <= tweetTextMaxSize THEN archiveURL
        ELSE IF Len(msg) <= tweetTextMaxSize THEN msg
        ELSE SubSeq(msg, 1, tweetTextMaxSize - 1)

\* the messages and the links composed: one text of every length
Message(n) == [i \in 1..n |-> IF i % 2 = 1 THEN "m" ELSE "s"]
ArchiveURL(n) == [i \in 1..n |-> "u"]

\* the lengths of the links, and the widths reserved for a link: none, the
\* width tryPostTweet reserves first, the sizes around the maximum
LinkLengths == {0, 8, tcoLinksMaxLength, 100, tweetTextMaxSize, MaxLinkLen}

\* a call of truncate that is about to be made
ComposeInputs ==
    {Op("call", 0, <<>>, "truncate", <<Message(n), ArchiveURL(l), w>>) :
        n \in 0..MaxMsgLen, l \in LinkLengths, w \in LinkLengths}

idleBot ==
    /\ phase = "running"
    /\ epoch = 0
    /\ now = 0
    /\ debug = FALSE
    /\ friends = <<>>
    /\ friendsFile = <<>>
    /\ followers = <<>>
    /\ followersFile = <<>>
    /\ tweetsFile = <<>>
    /\ retweetPolicy = [maxTry |-> defaultMaxTry, like |-> TRUE]
    /\ rt = [p \in RetweetFlows |-> idleFlow]
    /\ fl = idleFollow
    /\ uf = idleUnfollow
    /\ runs = 0
    /\ retweeted = {}
    /\ removed = {}
    /\ auxInit

InitCompose == idleBot /\ lastOp \in ComposeInputs

\* the call returns: res is the text truncate gives for the arguments arg
Truncate ==
    /\ lastOp.op = "call"
    /\ lastOp.by = "truncate"
    /\ lastOp' = Op("return", 0, truncate(lastOp.arg[1], lastOp.arg[2], lastOp.arg[3]),
                    "truncate", lastOp.arg)
    /\ UNCHANGED <<phase, epoch, now, debug, storeVars, tweetsFile, retweetPolicy,
                   rt, fl, uf, runs, retweeted, removed>>

NextCompose == Truncate /\ UNCHANGED auxVars

SpecCompose == InitCompose /\ [][NextCompose]_vars

Truncated == lastOp.op = "return" /\ lastOp.by = "truncate"

\* C12 as stated: whatever the message, the link and the width reserved,
\* the text truncate returns is at most 140 characters long.
C12_AtMost140 ==
    Truncated => Len(lastOp.res) <= tweetTextMaxSize

\* C12, amended: the text truncate returns is at most 140 characters long
\* once its link is counted for the width reserved for it; it is longer
\* than 140 characters by at most what the link is longer than that width.
C12_AtMost140WithReservedWidth ==
    Truncated =>
        LET over == Len(lastOp.arg[2]) - lastOp.arg[3]
        IN  Len(lastOp.res) <= tweetTextMaxSize + (IF over > 0 THEN over ELSE 0)

\* a message is cut to make room for a link that is as long as the width
\* reserved: the text returned is 140 characters long
C12_Witness ==
    /\ Truncated
    /\ Len(lastOp.arg[2]) = lastOp.arg[3]
    /\ lastOp.arg[3] = tcoLinksMaxLength
    /\ Len(lastOp.arg[1]) > tweetTextMaxSize
    /\ Len(lastOp.res) = tweetTextMaxSize

NoLink == Truncated /\ lastOp.arg[2] = <<>> /\ lastOp.arg[3] = 0

\* C13 as stated: with an empty link and no width reserved, a message of at
\* most 140 characters is returned unchanged and a longer one becomes a text
\* of exactly 140 characters, a prefix of the message and the three dots.
C13_Ellipsis140 ==
    NoLink =>
        LET msg == lastOp.arg[1]
            out == lastOp.res
        IN  IF Len(msg) <= tweetTextMaxSize THEN out = msg
            ELSE /\ Len(out) = tweetTextMaxSize
                 /\ out = SubSeq(msg, 1, Len(out) - 3) \o <<".", ".", ".">>

\* C13, amended: with an empty link and no width reserved, a message of at
\* most 140 characters is returned unchanged and a longer one becomes a text
\* of exactly 139 characters: the first 136 characters of the message and
\* the three dots.
C13_Ellipsis139 ==
    NoLink =>
        LET msg == lastOp.arg[1]
            out == lastOp.res
        IN  IF Len(msg) <= tweetTextMaxSize THEN out = msg
            ELSE /\ Len(out) = tweetTextMaxSize - 1
                 /\ out = SubSeq(msg, 1, tweetTextMaxSize - 4) \o <<".", ".", ".">>

\* a message of 141 characters is composed without a link
C13_Witness ==
    /\ NoLink
    /\ Len(lastOp.arg[1]) = tweetTextMaxSize + 1
    /\ Len(lastOp.res) < Len(lastOp.arg[1])

-----------------------------------------------------------------------------
(* TextNormalizer, step by step: the cut of getOriginalText, then the
   passes of its loop *)

MaxPieces == 4      \* longest text normalized, in pieces

\* the pieces the texts are made of: a letter, a space, the retweet tag and
\* its separator, the two links (the first one in two halves)
Pieces ==
    {<<"a">>, <<" ">>, retweetTextTag, retweetTextIndex,
     <<"h", "t", "t", "p">>, <<":", "/", "/", "t", ".", "c", "o">>, tweetTCOHTTPSTag}

RECURSIVE Texts(_)
Texts(n) ==
    IF n = 0 THEN {<<>>}
    ELSE LET shorter == Texts(n - 1)
         IN  shorter \cup {t \o piece : t \in shorter, piece \in Pieces}

\* a call of getOriginalText that is about to be made
NormalizeInputs ==
    {Op("call", 0, <<>>, "getOriginalText", text) : text \in Texts(MaxPieces)}

InitNormalize == idleBot /\ lastOp \in NormalizeInputs

\* getOriginalText up to its loop: the text is cut after the separator when
\* it holds the retweet tag; the parsing error is returned when it holds
\* the tag and no separator
GetOriginalText ==
    /\ lastOp.op = "call"
    /\ lastOp.by = "getOriginalText"
    /\ LET text == lastOp.arg
           tab == SplitN2(text, retweetTextIndex)
       IN  lastOp' =
             IF Contains(text, retweetTextTag)
             THEN IF Len(tab) # 2
                  THEN Op("return", 0, [text |-> <<>>, err |-> TRUE],
                          "getOriginalText", text)
                  ELSE Op("loop", 0, tab[2], "getOriginalText", text)
             ELSE Op("loop", 0, text, "getOriginalText", text)
    /\ UNCHANGED <<phase, epoch, now, debug, storeVars, tweetsFile, retweetPolicy,
                   rt, fl, uf, runs, retweeted, removed>>

\* the loop with a slip: it is left after its first pass
StripLoopPass_single ==
    /\ lastOp.op = "loop"
    /\ lastOp.by = "getOriginalText"
    /\ LET s1 == stripText(lastOp.res, tweetTCOHTTPTag, tweetTCOTextIndex)
           s2 == stripText(s1.text, tweetTCOHTTPSTag, tweetTCOTextIndex)
       IN  lastOp' = Op("return", lastOp.id, [text |-> s2.text, err |-> FALSE],
                        "getOriginalText", lastOp.arg)
    /\ UNCHANGED <<phase, epoch, now, debug, storeVars, tweetsFile, retweetPolicy,
                   rt, fl, uf, runs, retweeted, removed>>

\* one pass of the loop of getOriginalText: the two stripText, then the
\* break when neither has stripped; id counts the passes that have stripped
StripLoopPass ==
    /\ lastOp.op = "loop"
    /\ lastOp.by = "getOriginalText"
    /\ LET s1 == stripText(lastOp.res, tweetTCOHTTPTag, tweetTCOTextIndex)
           s2 == stripText(s1.text, tweetTCOHTTPSTag, tweetTCOTextIndex)
       IN  lastOp' =
             IF ~s1.stripped /\ ~s2.stripped
             THEN Op("return", lastOp.id, [text |-> s2.text, err |-> FALSE],
                     "getOriginalText", lastOp.arg)
             ELSE Op("loop", lastOp.id + 1, s2.text, "getOriginalText", lastOp.arg)
    /\ UNCHANGED <<phase, epoch, now, debug, storeVars, tweetsFile, retweetPolicy,
                   rt, fl, uf, runs, retweeted, removed>>

NextNormalize ==
    \/ GetOriginalText /\ UNCHANGED auxVars
    \/ StripLoopPass /\ UNCHANGED auxVars

SpecNormalize == InitNormalize /\ [][NextNormalize]_vars

Normalized == lastOp.op = "return" /\ lastOp.by = "getOriginalText"

\* the function and its steps give the same result
NormalizeAgrees == Normalized => lastOp.res = getOriginalText(lastOp.arg)

\* C14: for every text on which getOriginalText succeeds, getOriginalText
\* succeeds on its result and returns that result unchanged.
C14_NormalizeIdempotent ==
    (Normalized /\ ~lastOp.res.err) =>
        getOriginalText(lastOp.res.text) = [text |-> lastOp.res.text, err |-> FALSE]

\* the place of the first separator ": " after the retweet tag, 0 if none
SeparatorAfterTag(text) ==
    LET tag == Index(text, retweetTextTag)
        seps == {j \in (tag + Len(retweetTextTag))..Len(text) :
                    HasPrefixAt(text, retweetTextIndex, j)}
    IN  IF seps = {} THEN 0 ELSE CHOOSE j \in seps : \A k \in seps : j <= k

\* C15: a text that holds the retweet tag is cut after the first separator
\* ": " that follows the tag, whatever comes before the tag, and what is
\* left, empty or not, goes on to the loop; when no separator follows the
\* tag the parsing error is returned with an empty text.
C15_CutAfterTagSeparator ==
    (lastOp.by = "getOriginalText" /\ Contains(lastOp.arg, retweetTextTag)) =>
        LET text == lastOp.arg
            sep == SeparatorAfterTag(text)
        IN  /\ (lastOp.op = "loop" /\ lastOp.id = 0) =>
                   /\ sep # 0
                   /\ lastOp.res = SubSeq(text, sep + Len(retweetTextIndex), Len(text))
            /\ lastOp.op = "return" =>
                   (lastOp.res.err <=> sep = 0)
            /\ (lastOp.op = "return" /\ lastOp.res.err) => lastOp.res.text = <<>>

\* what is left of a text that holds tag once the first token that starts
\* with tag is taken out: the token ends with the first space after the
\* tag, or with the text
WithoutToken(text, tag) ==
    LET i == Index(text, tag)
        spaces == {j \in (i + Len(tag))..Len(text) : text[j] = " "}
    IN  IF spaces = {} THEN SubSeq(text, 1, i - 1)
        ELSE SubSeq(text, 1, i - 1)
             \o SubSeq(text, (CHOOSE j \in spaces : \A k \in spaces : j <= k) + 1,
                       Len(text))

TokenRemoved(text, tag) ==
    stripText(text, tag, tweetTCOTextIndex) =
        IF Contains(text, tag) THEN [text |-> WithoutToken(text, tag), stripped |-> TRUE]
        ELSE [text |-> text, stripped |-> FALSE]

\* C16: the loop of getOriginalText ends (a pass that strips takes at least
\* the length of a link prefix off the text), the text it returns holds
\* neither "http://t.co" nor "https://t.co", also where the text around a
\* token taken out has come together, and every token taken out ends with
\* the first space after it or with the text.
C16_StripLoopEndsWithoutLinks ==
    /\ (lastOp.op = "loop" /\ lastOp.by = "getOriginalText") =>
          /\ Len(lastOp.res) + lastOp.id * Len(tweetTCOHTTPTag) <= Len(lastOp.arg)
          /\ TokenRemoved(lastOp.res, tweetTCOHTTPTag)
          /\ TokenRemoved(stripText(lastOp.res, tweetTCOHTTPTag, tweetTCOTextIndex).text,
                          tweetTCOHTTPSTag)
    /\ (Normalized /\ ~lastOp.res.err) =>
          /\ ~Contains(lastOp.res.text, tweetTCOHTTPTag)
          /\ ~Contains(lastOp.res.text, tweetTCOHTTPSTag)
          /\ lastOp.id * Len(tweetTCOHTTPTag) <= Len(lastOp.arg)

\* the loop has made two passes that stripped: the second one took out a
\* link that was not in the text the loop started with
C16_Witness ==
    /\ Normalized
    /\ ~lastOp.res.err
    /\ lastOp.id = 2
    /\ ~Contains(lastOp.arg, tweetTCOHTTPTag)
    /\ Contains(lastOp.arg, tweetTCOHTTPSTag)

-----------------------------------------------------------------------------
(* DuplicateFilter: the filters of getTweets, applied twice to one search
   result *)

MaxBatch == 3       \* longest list of statuses filtered
MaxPrevious == 2    \* longest list of previous tweets

\* a plain tweet of another content, whose author has a banned name
tweetB == [Id |-> 4, Text |-> <<"b">>, User |-> userV, Retweeted |-> FALSE]

FilterTweets == {tweetA, tweetRTA, tweetOld, tweetB}

RECURSIVE TweetLists(_)
TweetLists(n) ==
    IF n = 0 THEN {<<>>}
    ELSE LET shorter == TweetLists(n - 1)
         IN  shorter \cup {Append(l, tweet) : l \in shorter, tweet \in FilterTweets}

\* getTweets has the answer of GetSearch and is about to filter it
FilterInputs ==
    {Op("call", 0, <<>>, "getTweets",
        [statuses |-> statuses, banned |-> banned, previous |-> previous,
         first |-> <<>>]) :
        statuses \in TweetLists(MaxBatch), banned \in BannedChoices,
        previous \in TweetLists(MaxPrevious)}

InitFilter == idleBot /\ lastOp \in FilterInputs

\* the three filters of getTweets on the statuses
FilterOnce ==
    /\ lastOp.op = "call"
    /\ lastOp.by = "getTweets"
    /\ LET current == filterTweets(lastOp.arg.statuses, lastOp.arg.banned,
                                   lastOp.arg.previous)
       IN  lastOp' = Op("filtered", 1, current, "getTweets",
                        [lastOp.arg EXCEPT !.first = current])
    /\ UNCHANGED <<phase, epoch, now, debug, storeVars, tweetsFile, retweetPolicy,
                   rt, fl, uf, runs, retweeted, removed>>

\* the tweets the filters have let through are appended to previous and
\* the same statuses are filtered again
FilterAgain ==
    /\ lastOp.op = "filtered"
    /\ lastOp.by = "getTweets"
    /\ lastOp.id = 1
    /\ LET previous == lastOp.arg.previous \o lastOp.res
       IN  lastOp' = Op("filtered", 2,
                        filterTweets(lastOp.arg.statuses, lastOp.arg.banned, previous),
                        "getTweets", [lastOp.arg EXCEPT !.previous = previous])
    /\ UNCHANGED <<phase, epoch, now, debug, storeVars, tweetsFile, retweetPolicy,
                   rt, fl, uf, runs, retweeted, removed>>

NextFilter ==
    \/ FilterOnce /\ UNCHANGED auxVars
    \/ FilterAgain /\ UNCHANGED auxVars

SpecFilter == InitFilter /\ [][NextFilter]_vars

\* C17: when the tweets that removeBanned, removeDuplicates and
\* takeDifference have let through are added to previous, the same filters
\* let none of the same statuses through.
C17_SecondPassEmpty ==
    (lastOp.op = "filtered" /\ lastOp.by = "getTweets" /\ lastOp.id = 2) =>
        lastOp.res = <<>>

\* the second pass, over statuses of which the first pass has let two
\* through and dropped one for its text
C17_Witness ==
    /\ lastOp.op = "filtered"
    /\ lastOp.by = "getTweets"
    /\ lastOp.id = 2
    /\ lastOp.arg.first = <<tweetA, tweetB>>
    /\ lastOp.arg.statuses = <<tweetA, tweetRTA, tweetB>>
    /\ lastOp.arg.banned = <<>>
    /\ lastOp.res = <<>>

\* getTweets has filtered the statuses: lastOp.res are the tweets let through
Filtered == lastOp.op = "filtered" /\ lastOp.by = "getTweets"

\* the text that removeDuplicates and takeDifference compare: the first
\* result of getOriginalText, its error left aside
original(tweet) == getOriginalText(tweet.Text).text

\* sub[i..] can be picked, in order, out of seq[j..]
RECURSIVE IsSubsequenceFrom(_, _, _, _)
IsSubsequenceFrom(sub, i, seq, j) ==
    IF i > Len(sub) THEN TRUE
    ELSE IF j > Len(seq) THEN FALSE
    ELSE IF sub[i] = seq[j] THEN IsSubsequenceFrom(sub, i + 1, seq, j + 1)
    ELSE IsSubsequenceFrom(sub, i, seq, j + 1)

IsSubsequence(sub, seq) == IsSubsequenceFrom(sub, 1, seq, 1)

\* statuses[k] is the first tweet of statuses that is not banned and has
\* the original text of tweet
FirstAllowedLike(statuses, banned, k, tweet) ==
    /\ ~IsBanned(statuses[k], banned)
    /\ original(statuses[k]) = original(tweet)
    /\ \A j \in 1..(k - 1) :
          IsBanned(statuses[j], banned) \/ original(statuses[j]) # original(tweet)

\* C24: the tweets getTweets lets through are a subsequence of the statuses,
\* in their order; no two of them have the same original text; each of them
\* is the first tweet of the statuses that is not banned and has its
\* original text.
C24_FirstPerFingerprint ==
    Filtered =>
        LET current == lastOp.res
            statuses == lastOp.arg.statuses
        IN  /\ IsSubsequence(current, statuses)
            /\ \A i, j \in 1..Len(current) :
                  i # j => original(current[i]) # original(current[j])
            /\ \A i \in 1..Len(current) :
                  \E k \in 1..Len(statuses) :
                      /\ FirstAllowedLike(statuses, lastOp.arg.banned, k, current[i])
                      /\ statuses[k] = current[i]

\* three statuses, none banned, the third with the original text of the
\* first: the first two are let through, in their order
C24_Witness ==
    /\ Filtered
    /\ lastOp.id = 1
    /\ lastOp.arg.statuses = <<tweetRTA, tweetB, tweetA>>
    /\ lastOp.arg.banned = <<>>
    /\ lastOp.arg.previous = <<>>
    /\ lastOp.res = <<tweetRTA, tweetB>>

\* the identifiers and the original texts of the tweets of the ledger
PreviousIds == {lastOp.arg.previous[i].Id : i \in 1..Len(lastOp.arg.previous)}
PreviousTexts == {original(lastOp.arg.previous[i]) : i \in 1..Len(lastOp.arg.previous)}

\* C25: no tweet that getTweets lets through is banned, and a banned tweet
\* never hides a later one: a tweet that is not banned, that is not in the
\* ledger by identifier or original text, and that no earlier tweet that is
\* not banned matches by identifier or original text, is let through.
C25_BannedRemovedFirst ==
    Filtered =>
        LET current == lastOp.res
            statuses == lastOp.arg.statuses
            banned == lastOp.arg.banned
        IN  /\ \A i \in 1..Len(current) : ~IsBanned(current[i], banned)
            /\ \A k \in 1..Len(statuses) :
                  (/\ FirstAllowedLike(statuses, banned, k, statuses[k])
                   /\ \A j \in 1..(k - 1) :
                         IsBanned(statuses[j], banned) \/ statuses[j].Id # statuses[k].Id
                   /\ statuses[k].Id \notin PreviousIds
                   /\ original(statuses[k]) \notin PreviousTexts)
                  => \E i \in 1..Len(current) : current[i] = statuses[k]

\* a banned retweet comes before a tweet of the same original text that is
\* not banned: the second is let through
C25_Witness ==
    /\ Filtered
    /\ lastOp.id = 1
    /\ lastOp.arg.statuses = <<tweetRTA, tweetA>>
    /\ lastOp.arg.banned = << <<"v">> >>
    /\ lastOp.arg.previous = <<>>
    /\ lastOp.res = <<tweetA>>

-----------------------------------------------------------------------------
(* The follow-followers and the unfollow-all flows of a bot made with
   debug = true *)

InitDebug ==
    /\ phase = "running"
    /\ epoch = 0
    /\ now = 0
    /\ debug = TRUE
    /\ friends \in FriendsChoices
    /\ friendsFile = friends
    /\ followers = <<>>
    /\ followersFile = <<>>
    /\ tweetsFile = <<>>
    /\ retweetPolicy = [maxTry |-> defaultMaxTry, like |-> TRUE]
    /\ rt = [p \in RetweetFlows |-> idleFlow]
    /\ fl = idleFollow
    /\ uf = idleUnfollow
    /\ runs = 0
    /\ retweeted = {}
    /\ removed = {}
    /\ lastOp = Op("MakeTwitterBot", 0, "ok", "boot", {})
    /\ auxInit

NextDebug ==
    \/ Tick /\ UNCHANGED auxVars
    \/ \E ids \in FetchedIds : AutoFollowFollowers(ids) /\ UNCHANGED auxVars
    \/ FollowAllEnd /\ UNCHANGED auxVars
    \/ FollowGetFriend /\ UNCHANGED auxVars
    \/ FollowIsFollower /\ UNCHANGED auxVars
    \/ \E res \in FollowResults : FollowCall(res) /\ UNCHANGED auxVars
    \/ \E saveOk \in BOOLEAN : FollowAddFriend(saveOk) /\ UNCHANGED auxVars
    \/ FollowSleep /\ UNCHANGED auxVars
    \/ UnfollowAllEnter /\ UNCHANGED auxVars
    \/ \E res \in UnfollowResults : UnfollowCall(res) /\ UNCHANGED auxVars
    \/ \E saveOk \in BOOLEAN : UnfollowFriend(saveOk) /\ UNCHANGED auxVars
    \/ UnfollowSleep /\ UNCHANGED auxVars
    \/ UnfollowNext /\ UNCHANGED auxVars

SpecDebug == InitDebug /\ [][NextDebug]_vars

\* the last step has suspended its flow: controlledSleep has slept, or
\* unfollowAll has waited 3 hours before it entered itself again, or
\* checkUnableToFollowAtThisTime has waited 15 minutes on the answer
\* 'unable to follow more people at this time'
Slept ==
    \/ lastOp.res = "slept"
    \/ lastOp.op = "sleep3h"
    \/ (lastOp.op = "FollowUserId" /\ lastOp.res = "unable")

\* C18: when the bot is made with debug = true, no step of a flow sleeps.
C18_NoSleepInDebug == debug => ~Slept

-----------------------------------------------------------------------------
(* The end of the unfollow-all flow, and Wait *)

\* the counter of t.quit as AutoUnfollowFriendsAsync leaves it: Add(1)
\* when the flow is started, Done() when unfollowAll returns, which no
\* position of the flow is
quit == IF uf.pc = "idle" THEN 0 ELSE 1

-----------------------------------------------------------------------------
(* The follow-followers flow on its own *)

NextFollow ==
    \/ \E ids \in FetchedIds : AutoFollowFollowers(ids) /\ UNCHANGED auxVars
    \/ FollowAllEnd /\ UNCHANGED auxVars
    \/ FollowGetFriend /\ UNCHANGED auxVars
    \/ FollowIsFollower /\ UNCHANGED auxVars
    \/ \E res \in FollowResults : FollowCall(res) /\ UNCHANGED auxVars
    \/ \E saveOk \in BOOLEAN : FollowAddFriend(saveOk) /\ UNCHANGED auxVars
    \/ FollowSleep /\ UNCHANGED auxVars

\* the bot once MakeTwitterBot has returned, before AutoFollowFollowers
InitFollow ==
    /\ phase = "running"
    /\ epoch = 0
    /\ now = 0
    /\ debug = FALSE
    /\ friends \in FriendsChoices
    /\ friendsFile = friends
    /\ followers \in {<<>>, (FormatInt(3) :> friendSince(0, TRUE))}
    /\ followersFile = followers
    /\ tweetsFile = <<>>
    /\ retweetPolicy = [maxTry |-> defaultMaxTry, like |-> TRUE]
    /\ rt = [p \in RetweetFlows |-> idleFlow]
    /\ fl = idleFollow
    /\ uf = idleUnfollow
    /\ runs = 0
    /\ retweeted = {}
    /\ removed = {}
    /\ lastOp = Op("MakeTwitterBot", 0, "ok", "boot", {})
    /\ auxInit

SpecFollow == InitFollow /\ [][NextFollow]_vars

\* C20: followAll calls addFriend(id) only when the FollowUserId call it
\* has just made for id has returned without error.
C20_AddFriendOnlyAfterSuccess ==
    [][lastOp'.op = "addFriend" =>
          /\ lastOp.op = "FollowUserId"
          /\ lastOp.id = lastOp'.id
          /\ lastOp.res = "ok"]_vars


-----------------------------------------------------------------------------
(* Claims about failures of the persistence and of the remote *)

\* C29: a failure to save the friends snapshot in addFriend or unfollowFriend
\* comes back to the caller as an error: the process is not aborted by it.
C29_SaveFailureReturned ==
    lastOp.op \in {"addFriend", "unfollowFriend"} /\ lastOp.res = "error"
        => phase # "dead"

\* C30: once a remote call has failed with the error of an invalid token or
\* of a locked account, the process is over (and so no flow calls the remote
\* again): this holds for the search and retweet calls of the retweet flow
\* as it does for its follow calls.
C30_FatalFailureAborts ==
    lastOp.res = "fatal" => phase = "dead"

\* the successful retweet calls of the invocation that flow p is running
RetweetedBy(p) == {d \in retweeted' : d.run = rt[p].run}

\* C22: when a RetweetOnce invocation ends, either it returns success, has
\* made exactly one successful retweet call and the persisted ledger is the
\* former one with one entry appended, or it returns an error, has made no
\* successful retweet call and the persisted ledger is unchanged.
C22_SuccessOrError ==
    [][\A p \in RetweetFlows :
          rt[p].pc # "idle" /\ rt'[p].pc = "idle" =>
             \/ /\ rt'[p].result = "ok"
                /\ Cardinality(RetweetedBy(p)) = 1
                /\ Len(tweetsFile') = Len(tweetsFile) + 1
                /\ SubSeq(tweetsFile', 1, Len(tweetsFile)) = tweetsFile
             \/ /\ rt'[p].result = "error"
                /\ RetweetedBy(p) = {}
                /\ tweetsFile' = tweetsFile]_vars

-----------------------------------------------------------------------------
(* Two retweet flows started with RetweetOnceAsync on the same bot *)

\* the goroutines of two RetweetOnceAsync calls
AsyncFlows == {1, 2}

\* what GetSearch answers to them
AsyncStatuses == {<<tweetA>>, <<tweetB>>}

InitAsync ==
    /\ phase = "running"
    /\ epoch = 0
    /\ now = 0
    /\ debug = FALSE
    /\ friends = <<>>
    /\ friendsFile = <<>>
    /\ followers = <<>>
    /\ followersFile = <<>>
    /\ tweetsFile = <<>>
    /\ retweetPolicy = [maxTry |-> defaultMaxTry, like |-> TRUE]
    /\ rt = [p \in AsyncFlows |-> idleFlow]
    /\ fl = [pc |-> "idle"]
    /\ uf = [pc |-> "idle"]
    /\ runs = 0
    /\ retweeted = {}
    /\ removed = {}
    /\ lastOp = Op("MakeTwitterBot", 0, "ok", 0, <<>>)
    /\ auxInit

NextAsync ==
    \/ \E p \in AsyncFlows, ok \in BOOLEAN : RetweetOnce(p, <<>>, ok)
          /\ UNCHANGED auxVars
    \/ \E p \in AsyncFlows, res \in RemoteResults, s \in AsyncStatuses :
          GetTweets(p, res, s) /\ UNCHANGED auxVars
    \/ \E p \in AsyncFlows, res \in RemoteResults : RetweetCall(p, res)
          /\ UNCHANGED auxVars
    \/ \E p \in AsyncFlows, res \in FollowResults : FollowUser(p, res)
          /\ UNCHANGED auxVars
    \/ \E p \in AsyncFlows : RetweetFailed(p) /\ UNCHANGED auxVars
    \/ \E p \in AsyncFlows, ok \in BOOLEAN : AppendAndSave(p, ok) /\ UNCHANGED auxVars

SpecAsync == InitAsync /\ [][NextAsync]_vars

\* C21: once the retweet flows that ran concurrently have all finished, the
\* stored ledger holds the entry of every retweet that one of them has
\* appended and saved.
C21_SavedEntriesKept ==
    (\A p \in AsyncFlows : rt[p].pc = "idle") =>
        \A d \in retweeted :
            d.saved => \E i \in 1..Len(tweetsFile) : tweetsFile[i] = RetweetResult(d.tweet)

-----------------------------------------------------------------------------
(* The filters of getTweets over tweets whose text getOriginalText fails to
   parse *)

\* a second tweet with the retweet tag and no ": " separator, and a retweet
\* of an empty text
tweetOld2 == [Id |-> 5, Text |-> retweetTextTag \o <<"v">>, User |-> userU,
              Retweeted |-> FALSE]
tweetEmpty == [Id |-> 6, Text |-> retweetTextTag \o <<"u">> \o retweetTextIndex,
               User |-> userU, Retweeted |-> TRUE]

MalformedTweets == {tweetA, tweetOld, tweetOld2, tweetEmpty}

RECURSIVE MalformedLists(_)
MalformedLists(n) ==
    IF n = 0 THEN {<<>>}
    ELSE LET shorter == MalformedLists(n - 1)
         IN  shorter \cup {Append(l, tweet) : l \in shorter, tweet \in MalformedTweets}

\* getTweets has the answer of GetSearch and is about to filter it; nothing
\* is banned, the ledger is empty or holds one of the tweets
MalformedInputs ==
    {Op("call", 0, <<>>, "getTweets",
        [statuses |-> statuses, banned |-> <<>>, previous |-> previous,
         first |-> <<>>]) :
        statuses \in MalformedLists(MaxBatch), previous \in MalformedLists(1)}

InitMalformed == idleBot /\ lastOp \in MalformedInputs

NextMalformed == FilterOnce /\ UNCHANGED auxVars

SpecMalformed == InitMalformed /\ [][NextMalformed]_vars

\* getOriginalText answers an error for the text of the tweet
Malformed(tweet) == getOriginalText(tweet.Text).err

\* the text of the tweet itself where getOriginalText fails, the original
\* text otherwise
rawOrOriginal(tweet) == IF Malformed(tweet) THEN tweet.Text ELSE original(tweet)

\* C23: a tweet whose text getOriginalText fails to parse is compared by its
\* own text: it is let through unless an earlier tweet of the statuses or a
\* tweet of the ledger has its identifier or that same text (two such
\* tweets with different texts, or one and a tweet whose original text is
\* empty, are not duplicates).
C23_MalformedComparedByRawText ==
    Filtered =>
        LET current == lastOp.res
            statuses == lastOp.arg.statuses
            previous == lastOp.arg.previous
            Same(a, b) == a.Id = b.Id \/ rawOrOriginal(a) = rawOrOriginal(b)
        IN  \A k \in 1..Len(statuses) :
                (/\ Malformed(statuses[k])
                 /\ \A j \in 1..(k - 1) : ~Same(statuses[j], statuses[k])
                 /\ \A j \in 1..Len(previous) : ~Same(previous[j], statuses[k]))
                => \E i \in 1..Len(current) : current[i] = statuses[k]

-----------------------------------------------------------------------------
(* The pacing of the follow-followers and unfollow-all flows, debug off *)

\* the flow has called FollowUserId or UnfollowUserId: it has not slept since
Called(flow) == aux' = [aux EXCEPT !.paced[flow] = FALSE]

\* the flow has gone through controlledSleep, which sleeps unless debug is on
Paced(flow) == aux' = [aux EXCEPT !.paced[flow] = ~debug]

\* unfollowAll is entered: after its 3 hours wait when it enters itself
Entered(flow) == aux' = [aux EXCEPT !.paced[flow] = @ \/ uf.pc = "wait"]

NextPacing ==
    \/ Tick /\ UNCHANGED auxVars
    \/ \E ids \in FetchedIds : AutoFollowFollowers(ids) /\ UNCHANGED auxVars
    \/ FollowAllEnd /\ UNCHANGED auxVars
    \/ FollowGetFriend /\ UNCHANGED auxVars
    \/ FollowIsFollower /\ UNCHANGED auxVars
    \/ \E res \in FollowResults : FollowCall(res) /\ Called("followAll")
    \/ \E saveOk \in BOOLEAN : FollowAddFriend(saveOk) /\ UNCHANGED auxVars
    \/ FollowSleep /\ Paced("followAll")
    \/ UnfollowAllEnter /\ Entered("unfollowAll")
    \/ \E res \in UnfollowResults : UnfollowCall(res) /\ Called("unfollowAll")
    \/ \E saveOk \in BOOLEAN : UnfollowFriend(saveOk) /\ UNCHANGED auxVars
    \/ UnfollowSleep /\ Paced("unfollowAll")
    \/ UnfollowNext /\ UNCHANGED auxVars

SpecPacing == InitFollow /\ [][NextPacing]_vars

\* C26: with debug off, a flow that calls FollowUserId or UnfollowUserId has
\* gone through a controlledSleep (or, more than that, the 3 hours wait of
\* unfollowAll) since its former call of the kind, whether that call failed
\* or not.
C26_SleepBetweenCalls ==
    [][\A flow \in {"followAll", "unfollowAll"} :
          (lastOp'.by = flow /\ lastOp'.op \in {"FollowUserId", "UnfollowUserId"})
             => aux.paced[flow]]_vars

-----------------------------------------------------------------------------
(* TwitterBot.mutex in the follow-followers and unfollow-all flows: every
   accessor of the store starts with t.mutex.Lock() and defer
   t.mutex.Unlock() *)

Flows == {"followAll", "unfollowAll"}

\* the next statement of the flow is the call of an accessor of the store:
\* getFriend, isFollower, addFriend; unfollowFriend, getFriendToUnFollow
Accessing(flow) ==
    IF flow = "followAll"
    THEN \/ fl.pc \in {"isFollower", "addFriend"}
         \/ fl.pc = "getFriend" /\ fl.idx <= Len(fl.ids)
    ELSE uf.pc \in {"unfollowFriend", "next"}

\* t.mutex.Lock() at the head of the accessor: the flow goes on once the
\* mutex is free
Lock(flow) ==
    /\ phase = "running"
    /\ Accessing(flow)
    /\ aux.mutex = "free"
    /\ aux' = [aux EXCEPT !.mutex = flow]
    /\ lastOp' = Op("Lock", 0, "ok", flow, {})
    /\ UNCHANGED <<phase, epoch, now, debug, storeVars, tweetsFile, retweetPolicy,
                   rt, fl, uf, runs, retweeted, removed>>

\* the accessor with a slip: no 'defer t.mutex.Unlock()'
Unlock_forgotten(holder) == holder

\* t.mutex.Unlock(), deferred by the accessor
Unlock(holder) == "free"

\* the body of an accessor, run by the flow that has locked the mutex, and
\* the deferred Unlock on its return (or on its panic); log.Fatalln ends the
\* process without running it
Locked(flow) ==
    /\ aux.mutex = flow
    /\ aux' = [aux EXCEPT !.mutex = IF lastOp'.res = "error" THEN @ ELSE Unlock(@)]

NextLocks ==
    \/ Tick /\ UNCHANGED auxVars
    \/ \E flow \in Flows : Lock(flow)
    \/ \E ids \in FetchedIds : AutoFollowFollowers(ids) /\ UNCHANGED auxVars
    \/ FollowAllEnd /\ UNCHANGED auxVars
    \/ FollowGetFriend /\ Locked("followAll")
    \/ FollowIsFollower /\ Locked("followAll")
    \/ \E res \in FollowResults : FollowCall(res) /\ UNCHANGED auxVars
    \/ \E saveOk \in BOOLEAN : FollowAddFriend(saveOk) /\ Locked("followAll")
    \/ FollowSleep /\ UNCHANGED auxVars
    \/ UnfollowAllEnter /\ UNCHANGED auxVars
    \/ \E res \in UnfollowResults : UnfollowCall(res) /\ UNCHANGED auxVars
    \/ \E saveOk \in BOOLEAN : UnfollowFriend(saveOk) /\ Locked("unfollowAll")
    \/ UnfollowSleep /\ UNCHANGED auxVars
    \/ UnfollowNext /\ Locked("unfollowAll")

SpecLocks == InitFollow /\ [][NextLocks]_vars

\* the reads and writes of t.friends and t.followers
StoreOps == {"getFriend", "isFollower", "addFriend", "unfollowFriend",
             "getFriendToUnFollow"}

\* the remote calls (the 15 minutes wait of checkUnableToFollowAtThisTime is
\* part of the FollowUserId step), controlledSleep and the 3 hours wait
SuspendOps == {"FollowUserId", "UnfollowUserId", "controlledSleep", "sleep3h"}

\* C27: while the flows run, a step that reads or writes friends or
\* followers is made by the flow that holds the mutex, nothing else changes
\* them, and a flow that makes a remote call, sleeps or waits does not hold
\* the mutex.
C27_StoreUnderMutex ==
    [][/\ lastOp'.op \in StoreOps => aux.mutex = lastOp'.by
       /\ (friends' # friends \/ followers' # followers) =>
              lastOp'.op \in StoreOps /\ aux.mutex = lastOp'.by
       /\ lastOp'.op \in SuspendOps => aux.mutex # lastOp'.by]_vars

\* unfollowAll has flagged a friend and released the mutex, for which
\* followAll was waiting before addFriend
C27_Witness ==
    /\ lastOp.op = "unfollowFriend"
    /\ lastOp.res = "ok"
    /\ fl.pc = "addFriend"
    /\ aux.mutex = "free"

-----------------------------------------------------------------------------
(* SetRetweetPolicy called while a retweet flow runs: its two assignments
   are steps of their own, nothing orders them with the reads of the flow *)

\* what GetSearch answers to the flow
PolicyStatuses == {<<>>, <<tweetA>>}

\* 't.retweetPolicy.maxTry = maxTry'
SetRetweetPolicyMaxTry(maxTry, like) ==
    /\ phase = "running"
    /\ aux.setter.pc = "idle"
    /\ retweetPolicy # [maxTry |-> maxTry, like |-> like]
    /\ retweetPolicy' = [retweetPolicy EXCEPT !.maxTry = maxTry]
    /\ aux' = [aux EXCEPT !.setter = [pc |-> "like", maxTry |-> maxTry, like |-> like,
                                      old |-> retweetPolicy]]
    /\ lastOp' = Op("SetRetweetPolicy.maxTry", maxTry, "ok", 0, <<>>)
    /\ UNCHANGED <<phase, epoch, now, debug, storeVars, removed, tweetsFile, rt, fl, uf,
                   runs, retweeted>>

\* 't.retweetPolicy.like = like', and the return
SetRetweetPolicyLike ==
    /\ phase = "running"
    /\ aux.setter.pc = "like"
    /\ retweetPolicy' = [retweetPolicy EXCEPT !.like = aux.setter.like]
    /\ aux' = [aux EXCEPT !.setter = idleSetter]
    /\ lastOp' = Op("SetRetweetPolicy.like", aux.setter.maxTry, "ok", 0, <<>>)
    /\ UNCHANGED <<phase, epoch, now, debug, storeVars, removed, tweetsFile, rt, fl, uf,
                   runs, retweeted>>

NextPolicy ==
    \/ \E maxTry \in 1..MaxTryBound, like \in BOOLEAN : SetRetweetPolicyMaxTry(maxTry, like)
    \/ SetRetweetPolicyLike
    \/ \E p \in RetweetFlows, ok \in BOOLEAN : RetweetOnce(p, <<>>, ok)
          /\ UNCHANGED auxVars
    \/ \E p \in RetweetFlows, res \in RemoteResults, s \in PolicyStatuses :
          GetTweets(p, res, s) /\ UNCHANGED auxVars
    \/ \E p \in RetweetFlows, res \in RemoteResults : RetweetCall(p, res)
          /\ UNCHANGED auxVars
    \/ \E p \in RetweetFlows, res \in FollowResults : FollowUser(p, res)
          /\ UNCHANGED auxVars
    \/ \E p \in RetweetFlows : RetweetFailed(p) /\ UNCHANGED auxVars
    \/ \E p \in RetweetFlows, ok \in BOOLEAN : AppendAndSave(p, ok) /\ UNCHANGED auxVars

SpecPolicy == InitRetweet /\ [][NextPolicy]_vars

\* the policy is neither the one SetRetweetPolicy found nor the one it sets
Torn ==
    /\ aux.setter.pc = "like"
    /\ retweetPolicy # aux.setter.old
    /\ retweetPolicy # [maxTry |-> aux.setter.maxTry, like |-> aux.setter.like]

\* the steps of the flow that read the policy: 'if t.retweetPolicy.like' of
\* retweet, 'count < t.retweetPolicy.maxTry' of autoRetweet
PolicyReads == {"Retweet", "unableToRetweet"}

\* C28: a step of the retweet flow that reads the retweet policy never finds
\* a policy that has one field of the configuration before a
\* SetRetweetPolicy call and one field of the configuration it sets.
C28_PolicyNeverTorn ==
    [][lastOp'.op \in PolicyReads => ~Torn]_vars

-----------------------------------------------------------------------------
(* fetchUserIds: the followers of the first account found, page by page *)

MaxPage == 4        \* largest maxPage fetchUserIds is called with

\* the followers the remote holds for the account, in pages
RemoteLists ==
    {<< <<1, 3>> >>, << <<1, 3>>, <<2>> >>, << <<1>>, <<2>>, <<3>> >>,
     << <<3>>, <<1>>, <<2>>, <<4>> >>, << <<2>>, <<1, 3>> >>}

\* cursors are the numbers their strings spell: -1 asks for the first page,
\* 0 is the end of the list, k > 1 asks for page k
firstCursor == 0 - 1
endCursor == 0

\* what GetFollowersUser answers to a request that holds the cursor sent
\* (firstCursor when the request holds none): the page and the next cursor
GetFollowersPage(pages, sent) ==
    LET k == IF sent = firstCursor THEN 1 ELSE sent
    IN  [Ids |-> pages[k],
         Next_cursor |-> IF k < Len(pages) THEN k + 1 ELSE endCursor]

\* fetchUserIds up to its loop: GetUserSearch, whose error ends the process,
\* and the first user found, if any
FetchUserIds(maxPage, pages, res, found) ==
    /\ phase = "running"
    /\ fl.pc = "idle"
    /\ phase' = IF res = "ok" THEN phase ELSE "dead"
    /\ fl' = [pc |-> IF res = "ok" /\ found THEN "fetch" ELSE "fetched",
              maxPage |-> maxPage, pages |-> pages, found |-> res = "ok" /\ found,
              nextCursor |-> firstCursor, currentPage |-> 1, ids |-> <<>>]
    /\ lastOp' = Op("GetUserSearch", 0, res, "followAll", <<>>)
    /\ UNCHANGED <<epoch, now, debug, storeVars, tweetsFile, retweetPolicy,
                   rt, uf, runs, retweeted, removed>>

\* one pass of the loop: v gets the cursor, GetFollowersUser is called with
\* nil in the place of v, so that no request holds a cursor; on an error the
\* loop goes on with the same page
GetFollowersUser(res) ==
    /\ phase = "running"
    /\ fl.pc = "fetch"
    /\ phase' = IF res = "fatal" THEN "dead" ELSE phase
    /\ LET sent == firstCursor
           cursor == GetFollowersPage(fl.pages, sent)
           last == fl.currentPage >= fl.maxPage
       IN  /\ fl' = IF res # "ok" THEN fl
                     ELSE [fl EXCEPT
                             !.ids = @ \o cursor.Ids,
                             !.currentPage = IF last THEN @ ELSE @ + 1,
                             !.nextCursor = IF last THEN @ ELSE cursor.Next_cursor,
                             !.pc = IF last \/ cursor.Next_cursor = endCursor
                                    THEN "fetched" ELSE "fetch"]
           /\ lastOp' = Op("GetFollowersUser", fl.currentPage, res, "followAll",
                           [cursor |-> fl.nextCursor, sent |-> sent])
    /\ UNCHANGED <<epoch, now, debug, storeVars, tweetsFile, retweetPolicy,
                   rt, uf, runs, retweeted, removed>>

InitFetch == idleBot /\ lastOp = Op("MakeTwitterBot", 0, "ok", "boot", {})

NextFetch ==
    \/ \E maxPage \in 1..MaxPage, pages \in RemoteLists, res \in {"ok", "error"},
          found \in BOOLEAN :
          FetchUserIds(maxPage, pages, res, found) /\ UNCHANGED auxVars
    \/ \E res \in RemoteResults : GetFollowersUser(res) /\ UNCHANGED auxVars

SpecFetch == InitFetch /\ [][NextFetch]_vars

\* the identifiers of the first k pages, in their order
RECURSIVE FirstPages(_, _)
FirstPages(pages, k) ==
    IF k = 0 THEN <<>> ELSE FirstPages(pages, k - 1) \o pages[k]

\* C31: what fetchUserIds returns for an account are the identifiers of the
\* first k pages of its followers, each page once and in order, where k is
\* maxPage or, when the list ends before, the number of its pages.
C31_ConsecutivePages ==
    (fl.pc = "fetched" /\ fl.found) =>
        LET k == IF fl.maxPage < Len(fl.pages) THEN fl.maxPage ELSE Len(fl.pages)
        IN  fl.ids = FirstPages(fl.pages, k)

=============================================================================
